---------------------------- MODULE Spec2Model ----------------------------
(***************************************************************************)
(* Model of django-multipleformwizard (multipleformwizard/forms.py):       *)
(* MultipleFormWizardView and NamedUrlWizardView, the step-state machine   *)
(* of a form wizard whose steps hold one form or a mapping of tagged       *)
(* forms.                                                                  *)
(*                                                                         *)
(* The state is the wizard's configuration (fixed by get_initkwargs) and   *)
(* the storage backend's data (current step, per-step data and files,      *)
(* extra data); every request handler (get, post) is one action.  What the *)
(* view inherits from django.contrib.formtools (StepsHelper, BaseStorage,  *)
(* ManagementForm, get_form, render_revalidation_failure of the base view) *)
(* is modelled at the place where forms.py calls it.  A handler works on   *)
(* the request's storage object: its writes take effect there when it      *)
(* makes them, and a handler that raises leaves them on that object.  The  *)
(* stored state, which the next request loads, is saved with the           *)
(* response: a request whose handler raises saves nothing.                 *)
(*                                                                         *)
(* Strings that are step names are sequences of code points, so that       *)
(* Python's sorted() on them can be computed.                              *)
(*                                                                         *)
(* Spec is the wizard serving requests on a configured view.  ConfigSpec   *)
(* is the configuration itself: get_initkwargs applied to a form list.     *)
(* FollowSpec is the named-URL wizard with a client that follows every     *)
(* redirect response with a GET of its target.  RaceSpec is the wizard     *)
(* serving two requests of one client at a time: each request loads the    *)
(* storage when it starts and saves it when it ends, without locking.      *)
(***************************************************************************)
EXTENDS Integers, Sequences, FiniteSets, TLC

\* ------------------------------------------------------------------ bounds
\* The longest declared form list.
MaxSteps == 3

\* The longest form list passed to get_initkwargs.
MaxDeclared == 2

\* The calls of done() after which no further request is started.
MaxDoneCalls == 2

\* ------------------------------------------------------------ vocabulary
\* Step names "a", "b", "c", "d", "e" as code points.
Na == <<97>>
Nb == <<98>>
Nc == <<99>>
Nd == <<100>>
Ne == <<101>>
\* A string that names no declared step ("z").
UnknownStep == <<122>>
\* Python's None where a step name is expected (storage.current_step after
\* reset, a missing wizard_goto_step, a missing step kwarg).
NoneStep == << >>
\* A management form that does not validate (current_step missing or empty).
NoMarker == <<0>>
\* The declared step names in declaration order; the order is not the
\* alphabetical one.
StepNamePool == <<Nb, Na, Nd, Nc, Ne>>

\* Form classes.  FA and FB are forms.Form subclasses; MF and MG are
\* forms.ModelForm subclasses (ModelForm derives from BaseModelForm, not from
\* forms.Form); FSB is a formset class, a formsets.BaseFormSet subclass whose
\* item form (.form) is FB.  FB and MG have the FileField "f".
FileFieldsOf(cls) == IF cls \in {"FB", "MG"} THEN {"f"} ELSE {}
IsFormSubclass(cls) == cls \in {"FA", "FB"}
IsModelFormSubclass(cls) == cls \in {"MF", "MG"}
IsFormSetSubclass(cls) == cls = "FSB"
\* The constructor of the class has an `instance` parameter: ModelForm's has,
\* Form's and BaseFormSet's raise TypeError on the unexpected keyword.
accepts_instance(cls) == IsModelFormSubclass(cls)
\* The _tag attribute of a form that has none.
NoTag == "<no _tag>"
\* data=None and files=None of a form.
NoData == {"<None>"}
NoFiles == {"<None>"}

\* The form structures of a step (a value of computed_form_list): a form
\* class, or a mapping from tag to form class, kept as its items() sequence.
SingleForm(cls) == [is_mapping |-> FALSE, items |-> <<[tag |-> NoTag, cls |-> cls]>>]
FormMapping(items) == [is_mapping |-> TRUE, items |-> items]
\* The declared wizard whose grouped steps hold ModelForm classes: a mapping
\* of two tags, a mapping of one tag, then plain forms (the first of them with
\* a FileField).
StructPool ==
    << FormMapping(<<[tag |-> "x", cls |-> "MF"], [tag |-> "y", cls |-> "MG"]>>),
       FormMapping(<<[tag |-> "x", cls |-> "MF"]>>),
       SingleForm("FB"),
       SingleForm("FA"),
       SingleForm("FA") >>

VARIABLES
    variant,        \* "base": MultipleFormWizardView, "named": NamedUrlWizardView
    form_list,      \* self.form_list: sequence of [name, struct], in OrderedDict order
    condition_dict, \* self.condition_dict: step name -> BOOLEAN
    current_step,   \* storage.current_step
    step_data,      \* storage.data[step_data_key]: step name -> submitted data
    step_files,     \* storage.data[step_files_key]: step name -> stored files
    extra_data,     \* storage.extra_data
    init_args,      \* the arguments of the get_initkwargs call under examination
    initkwargs,     \* what that call returned or raised
    pending,        \* the redirect target the client has still to GET, or NoneStep
    in_flight,      \* the requests being handled: each with the storage it loaded
    done_calls,     \* the stored data done() has been called with, call by call
    generation      \* how many resets after done() the stored data has been through

config == <<variant, form_list, condition_dict, init_args, initkwargs>>
storage == <<current_step, step_data, step_files, extra_data>>
race == <<in_flight, done_calls, generation>>
client == <<pending, race>>
vars == <<variant, form_list, condition_dict, current_step, step_data, step_files,
          extra_data, init_args, initkwargs, pending, in_flight, done_calls,
          generation>>

\* --------------------------------------------------------------- helpers
Range(s) == { s[i] : i \in DOMAIN s }
SeqMap(Op(_), s) == [i \in DOMAIN s |-> Op(s[i])]
EmptyMap == [k \in {} |-> {}]
MapSet(f, k, v) == [x \in DOMAIN f \cup {k} |-> IF x = k THEN v ELSE f[x]]

\* Python's < on strings: lexicographic on code points.
RECURSIVE StrLess(_, _)
StrLess(s, t) ==
    IF t = << >> THEN FALSE
    ELSE IF s = << >> THEN TRUE
    ELSE IF Head(s) # Head(t) THEN Head(s) < Head(t)
    ELSE StrLess(Tail(s), Tail(t))

\* sorted(keys): the keys in ascending string order.
RECURSIVE Sorted(_)
Sorted(keys) ==
    IF keys = {} THEN << >>
    ELSE LET m == CHOOSE k \in keys : \A o \in keys \ {k} : StrLess(k, o)
         IN <<m>> \o Sorted(keys \ {m})

\* The declared step names, in form_list order, and the lookup self.form_list[step].
StepNames == SeqMap(LAMBDA e : e.name, form_list)
Declared == Range(StepNames)
StructOf(step) == (CHOOSE e \in Range(form_list) : e.name = step).struct

\* WizardView.get_form_list(): the steps whose condition is true, in order.
get_form_list == SelectSeq(StepNames, LAMBDA n : condition_dict[n])
Active == Range(get_form_list)

\* StepsHelper of the view, on a given stored current step.
\* (Mutation of steps_first: the first declared step, whatever its condition.)
steps_first_declared == StepNames[1]
steps_first == get_form_list[1]
steps_last == get_form_list[Len(get_form_list)]
steps_current_of(cur) == IF cur # NoneStep THEN cur ELSE steps_first
steps_current == steps_current_of(current_step)
IndexOf(seq, x) == CHOOSE i \in DOMAIN seq : seq[i] = x
\* WizardView.get_next_step(step): defined for an active step only (index()
\* raises ValueError otherwise); None after the last one.
get_next_step(step) ==
    LET k == IndexOf(get_form_list, step) + 1
    IN IF Len(get_form_list) >= k THEN get_form_list[k] ELSE NoneStep

\* BaseStorage.get_step_data / get_step_files.
get_step_data(data, step) == IF step \in DOMAIN data THEN data[step] ELSE NoData
get_step_files(files, step) ==
    IF step \in DOMAIN files /\ files[step] # {} THEN files[step] ELSE NoFiles
\* BaseStorage.set_step_files: the uploaded files are added to the step's entry.
set_step_files(files, step, new) ==
    MapSet(files, step, (IF step \in DOMAIN files THEN files[step] ELSE {}) \cup new)

\* ------------------------------------------------------------------ forms
\* A form object: its class, prefix, the data and files it is bound to and
\* its _tag attribute.
get_form_prefix(step, cls) == step
Form(cls, prefix, data, files, tag) ==
    [cls |-> cls, prefix |-> prefix, data |-> data, files |-> files, tag |-> tag]

\* MultipleFormWizardView.get_forms(step, data, files), lines 246-315: the
\* form collection (forms), or the exception that leaves it (exc).  Every form
\* of a mapping is constructed with the keyword `instance` (lines 275-276); a
\* single class is constructed by the branch of its base class, and a
\* formsets.BaseFormSet subclass matches none of them (lines 279, 292, 302):
\* the collection stays empty.
get_forms(step, data, files) ==
    LET form_struct == StructOf(step)
    IN IF form_struct.is_mapping THEN
           IF \E i \in DOMAIN form_struct.items :
                  ~accepts_instance(form_struct.items[i].cls)
           THEN [exc |-> "TypeError", forms |-> << >>]
           ELSE [exc |-> "",
                 forms |-> SeqMap(LAMBDA it : Form(it.cls, get_form_prefix(step, it.cls),
                                                   data, files, it.tag),
                                  form_struct.items)]
       ELSE LET form_class == form_struct.items[1].cls
            IN IF IsModelFormSubclass(form_class) \/ IsFormSubclass(form_class)
               THEN [exc |-> "",
                     forms |-> <<Form(form_class, get_form_prefix(step, form_class),
                                      data, files, NoTag)>>]
               ELSE [exc |-> "", forms |-> << >>]

\* Form.is_valid(): a bound form whose data passes the class's validation.
\* Submitted data is the set of form classes whose validation it passes.
is_bound(form) == form.data # NoData \/ form.files # NoFiles
is_valid(form) == is_bound(form) /\ form.data # NoData /\ form.cls \in form.data


\* --------------------------------------------------------------- storage
\* The storage's data as a value: the handlers below map it to the value the
\* request leaves behind.
St(step, data, files, extra) ==
    [step |-> step, data |-> data, files |-> files, extra |-> extra]
\* BaseStorage.reset() / init_data().
storage_reset == St(NoneStep, EmptyMap, EmptyMap, {})

\* ------------------------------------------------------------- responses
\* done_step_name of the named-URL view (its default).
DoneStepName == <<100, 111, 110, 101>>
\* kind: "render" (a step's page, step = steps.current in the context's
\* management form), "redirect" (step = the step whose URL is the target),
\* "done" (the response of done(); form_list and form_dict are its arguments),
\* "error" (exc is the exception that left the handler).
Response(kind, step, forms, flist, fdict, exc) ==
    [kind |-> kind, step |-> step, forms |-> forms,
     form_list |-> flist, form_dict |-> fdict, exc |-> exc]
Rendered(step, forms) == Response("render", step, forms, << >>, EmptyMap, "")
Redirect(step) == Response("redirect", step, << >>, << >>, EmptyMap, "")
Raised(exc) == Response("error", NoneStep, << >>, << >>, EmptyMap, exc)
Out(st, response) == [st |-> st, resp |-> response]

\* MultipleFormWizardView.render(forms), lines 101-107: it calls
\* get_context_data(forms=forms), which NamedUrlWizardView (lines 449-456)
\* declares with the parameter `form`, so that the call raises TypeError there.
render(st, forms) ==
    IF variant = "named" THEN Out(st, Raised("TypeError"))
    ELSE Out(st, Rendered(steps_current_of(st.step), forms))

\* WizardView.get_form(step, data, files) of django.contrib.formtools, which
\* NamedUrlWizardView.get still calls (lines 413, 422, 429): it tests
\* issubclass(self.form_list[step], ...), a TypeError for a mapping, and
\* builds the one form of the step otherwise.
get_form_raises(step) == StructOf(step).is_mapping
get_form(step, data, files) ==
    LET cls == StructOf(step).items[1].cls
    IN <<Form(cls, get_form_prefix(step, cls), data, files, NoTag)>>

\* render_next_step, lines 109-123 (base) and 458-465 (named URL).
render_next_step(st) ==
    LET cur == steps_current_of(st.step)
    IN IF cur \notin Active THEN Out(st, Raised("ValueError"))
       ELSE LET next_step == get_next_step(cur)
                new_forms == get_forms(next_step, get_step_data(st.data, next_step),
                                       get_step_files(st.files, next_step))
                st1 == [st EXCEPT !.step = next_step]
            IN IF variant = "named" THEN Out(st1, Redirect(next_step))
               ELSE IF new_forms.exc # "" THEN Out(st, Raised(new_forms.exc))
               ELSE render(st1, new_forms.forms)

\* self.render(self.get_forms(...)): the exception of get_forms leaves the
\* handler before render is called.
render_built(st, built) ==
    IF built.exc # "" THEN Out(st, Raised(built.exc)) ELSE render(st, built.forms)

\* render_goto_step, lines 125-134 (base) and 467-473 (named URL).
render_goto_step(st, goto_step) ==
    LET st1 == [st EXCEPT !.step = goto_step]
        cur == steps_current_of(st1.step)
    IN IF variant = "named" THEN Out(st1, Redirect(goto_step))
       ELSE render_built(st1, get_forms(cur, get_step_data(st1.data, cur),
                                        get_step_files(st1.files, cur)))

\* render_revalidation_failure: WizardView's (base) stores the failed step and
\* renders the failing form; lines 475-481 (named URL) redirect to it.
\* (Mutation of render_revalidation_failure: the named-URL view redirects to
\* the done URL again.)
render_revalidation_failure_to_done(st, failed_step, form) ==
    LET st1 == [st EXCEPT !.step = failed_step]
    IN IF variant = "named" THEN Out(st1, Redirect(DoneStepName))
       ELSE render(st1, <<form>>)
render_revalidation_failure(st, failed_step, form) ==
    LET st1 == [st EXCEPT !.step = failed_step]
    IN IF variant = "named" THEN Out(st1, Redirect(failed_step))
       ELSE render(st1, <<form>>)

\* Lines 143-153: the forms of every step of get_form_list(), rebuilt from the
\* storage.
StepForms(st, form_key) ==
    get_forms(form_key, get_step_data(st.data, form_key),
              get_step_files(st.files, form_key)).forms
\* The positions in get_form_list() of the steps on which get_forms raises.
RaisingSteps ==
    { k \in DOMAIN get_form_list :
        get_forms(get_form_list[k], NoData, NoFiles).exc # "" }
final_forms(st) == [form_key \in Active |-> StepForms(st, form_key)]
InvalidIn(forms) == { i \in DOMAIN forms : ~is_valid(forms[i]) }
Min(S) == CHOOSE m \in S : \A o \in S : m <= o
Max(S) == CHOOSE m \in S : \A o \in S : m >= o
\* The positions in get_form_list() of the steps with a form that fails.
FailingSteps(st) ==
    { k \in DOMAIN get_form_list : InvalidIn(StepForms(st, get_form_list[k])) # {} }

\* Lines 155-166: the result of one step.
delattr_tag(form) == [form EXCEPT !.tag = NoTag]
StepResult(formcollection) ==
    IF Len(formcollection) = 1 THEN formcollection[1]
    ELSE [t \in { formcollection[i].tag : i \in DOMAIN formcollection } |->
            delattr_tag(CHOOSE f \in Range(formcollection) : f.tag = t)]
result_forms(st) ==
    LET ff == final_forms(st)
    IN [form_key \in { k \in DOMAIN ff : Len(ff[k]) >= 1 } |-> StepResult(ff[form_key])]
\* Line 169: the result list.
ResultOrder(keys) == Sorted(keys)
result_list(st) ==
    LET rf == result_forms(st)
    IN SeqMap(LAMBDA key : rf[key], ResultOrder(DOMAIN rf))

\* Lines 145-152 return at the first step, in get_form_list() order, with a
\* form that fails.
first_failing(failing) == Min(failing)

\* MultipleFormWizardView.render_done, lines 136-176.  callback is what done()
\* does: "returns" or "raises".
base_render_done(st, callback) ==
    LET failing == FailingSteps(st) \cup RaisingSteps
    IN IF failing # {} THEN
           LET form_key == get_form_list[first_failing(failing)]
               form_objs == StepForms(st, form_key)
           IN IF first_failing(failing) \in RaisingSteps THEN Out(st, Raised("TypeError"))
              ELSE render_revalidation_failure(st, form_key,
                                               form_objs[Min(InvalidIn(form_objs))])
       ELSE IF callback = "raises" THEN Out(st, Raised("done"))
       ELSE Out(storage_reset,
                Response("done", NoneStep, << >>, result_list(st), result_forms(st), ""))

\* render_done as the view dispatches it: NamedUrlWizardView.render_done, lines
\* 483-490, redirects unless the URL's step is the done step.
\* (Mutation of render_done: the storage is reset also when done() raises.)
render_done_always_resets(st, kw_step, callback) ==
    IF variant = "named" /\ kw_step # DoneStepName THEN Out(st, Redirect(DoneStepName))
    ELSE LET o == base_render_done(st, callback)
         IN IF o.resp.exc = "done" THEN Out(storage_reset, o.resp) ELSE o
render_done(st, kw_step, callback) ==
    IF variant = "named" /\ kw_step # DoneStepName THEN Out(st, Redirect(DoneStepName))
    ELSE base_render_done(st, callback)

\* -------------------------------------------------------------- handlers
\* MultipleFormWizardView.get, lines 179-191.
base_get(st) ==
    LET st1 == [storage_reset EXCEPT !.step = steps_first]
        cur == steps_current_of(st1.step)
    IN render_built(st1, get_forms(cur, NoData, NoFiles))

\* NamedUrlWizardView.get, lines 394-437.  step_url is kwargs['step'],
\* has_reset is 'reset' in request.GET.
\* (Mutation of named_get: an unknown step address resets the whole storage,
\* as the reset parameter of lines 400-402 does.)
named_get_unknown_resets(st, step_url, has_reset, callback) ==
    IF step_url = NoneStep THEN
        LET st1 == IF has_reset THEN [storage_reset EXCEPT !.step = steps_first] ELSE st
        IN Out(st1, Redirect(steps_current_of(st1.step)))
    ELSE IF step_url = DoneStepName THEN
        IF get_form_raises(steps_last) THEN Out(st, Raised("TypeError"))
        ELSE render_done(st, step_url, callback)
    ELSE IF step_url = steps_current_of(st.step) \/ step_url \in Active THEN
        LET st1 == IF step_url = steps_current_of(st.step) THEN st
                   ELSE [st EXCEPT !.step = step_url]
            cur == steps_current_of(st1.step)
        IN IF cur \notin Declared THEN Out(st1, Raised("KeyError"))
           ELSE IF get_form_raises(cur) THEN Out(st1, Raised("TypeError"))
           ELSE render(st1, get_form(cur, get_step_data(st1.data, st1.step),
                                     get_step_files(st1.files, st1.step)))
    ELSE LET st1 == [storage_reset EXCEPT !.step = steps_first]
         IN Out(st1, Redirect(steps_first))
named_get(st, step_url, has_reset, callback) ==
    IF step_url = NoneStep THEN
        LET st1 == IF has_reset THEN [storage_reset EXCEPT !.step = steps_first] ELSE st
        IN Out(st1, Redirect(steps_current_of(st1.step)))
    ELSE IF step_url = DoneStepName THEN
        IF get_form_raises(steps_last) THEN Out(st, Raised("TypeError"))
        ELSE render_done(st, step_url, callback)
    ELSE IF step_url = steps_current_of(st.step) \/ step_url \in Active THEN
        LET st1 == IF step_url = steps_current_of(st.step) THEN st
                   ELSE [st EXCEPT !.step = step_url]
            cur == steps_current_of(st1.step)
        IN IF cur \notin Declared THEN Out(st1, Raised("KeyError"))
           ELSE IF get_form_raises(cur) THEN Out(st1, Raised("TypeError"))
           ELSE render(st1, get_form(cur, get_step_data(st1.data, st1.step),
                                     get_step_files(st1.files, st1.step)))
    ELSE LET st1 == [st EXCEPT !.step = steps_first]
         IN Out(st1, Redirect(steps_first))

\* Lines 209-210: ManagementForm(request.POST).is_valid().
\* (Mutation of management_form_valid: the management form is not checked.)
management_form_unchecked(marker) == TRUE
management_form_valid(marker) == marker # NoMarker
\* Lines 216-220: the stored current step after the management form's
\* current_step has been reconciled with it.
reconcile_step(st, marker) ==
    IF marker # steps_current_of(st.step) /\ st.step # NoneStep THEN marker ELSE st.step

\* MultipleFormWizardView.post, lines 193-244 (NamedUrlWizardView.post, lines
\* 439-447, repeats the goto test and calls it).  goto is
\* POST['wizard_goto_step'], marker the management form's current_step (or
\* NoMarker), data and files are request.POST and request.FILES, kw_step is
\* kwargs['step'].
post(st, goto, marker, data, files, kw_step, callback) ==
    IF goto # NoneStep /\ goto \in Active THEN render_goto_step(st, goto)
    ELSE IF ~management_form_valid(marker) THEN Out(st, Raised("ValidationError"))
    ELSE
        LET st1 == [st EXCEPT !.step = reconcile_step(st, marker)]
            cur == steps_current_of(st1.step)
        IN IF cur \notin Declared THEN Out(st1, Raised("KeyError"))
           ELSE
             LET built == get_forms(cur, data, files)
                 forms == built.forms
                 all_valid == \A i \in DOMAIN forms : is_valid(forms[i])
                 st2 == [st1 EXCEPT !.data = MapSet(@, cur, data),
                                    !.files = set_step_files(@, cur, files)]
             IN IF built.exc # "" THEN Out(st1, Raised(built.exc))
                ELSE IF all_valid THEN
                    \* line 233 reads the loop variable `form`: unbound when
                    \* the collection is empty
                    IF forms = << >> THEN Out(st1, Raised("UnboundLocalError"))
                    ELSE IF cur = steps_last THEN render_done(st2, kw_step, callback)
                    ELSE render_next_step(st2)
                ELSE render(st1, forms)

\* ------------------------------------------------------- configurations
\* computed_form_list for a declared list of n steps: the first n entries of
\* the declared wizard.
FormListOf(n) == [i \in 1..n |-> [name |-> StepNamePool[i], struct |-> StructPool[i]]]
\* The declared wizard whose grouped step holds Form classes:
\* [('b', {'x': FA, 'y': FB}), FSB, ('d', FA), ('c', FA), ('e', FA)]; the bare
\* formset class is named by its position, '1'.
PlainFormListOf(n) ==
    LET names == <<Nb, <<49>>, Nd, Nc, Ne>>
        structs ==
            << FormMapping(<<[tag |-> "x", cls |-> "FA"], [tag |-> "y", cls |-> "FB"]>>),
               SingleForm("FSB"),
               SingleForm("FA"),
               SingleForm("FA"),
               SingleForm("FA") >>
    IN [i \in 1..n |-> [name |-> names[i], struct |-> structs[i]]]
\* condition_dict: a boolean per step (a callable condition is its value); at
\* most one step is inactive.
ConditionDicts(names) ==
    { c \in [names -> BOOLEAN] :
        /\ \E n \in names : c[n]
        /\ \A m, n \in names : ~c[m] /\ ~c[n] => m = n }

\* ----------------------------------------------------------------- state
\* No get_initkwargs call is under examination: the view is configured.
NotCalled == [status |-> "not called"]
Stored == St(current_step, step_data, step_files, extra_data)
\* WizardView.dispatch around a handler: the storage object's state is handed
\* to the backend with the response (storage.update_response after the handler
\* returns; the session is saved with the response unless it is a server
\* error).  A request whose handler raises leaves the stored state as loaded.
\* (Mutation of dispatch: the storage is saved also when the handler raises.)
dispatch_saves_always(loaded, out) == out.st
dispatch(loaded, out) == IF out.resp.kind = "error" THEN loaded ELSE out.st
\* A request on the stored state.
Apply(out) ==
    \E saved \in {dispatch(Stored, out)} :
        /\ current_step' = saved.step
        /\ step_data' = saved.data
        /\ step_files' = saved.files
        /\ extra_data' = saved.extra
        /\ UNCHANGED <<config, client>>

Init ==
    /\ variant \in {"base", "named"}
    /\ \E n \in 1..MaxSteps : form_list \in {FormListOf(n), PlainFormListOf(n)}
    /\ condition_dict \in ConditionDicts({ form_list[i].name : i \in DOMAIN form_list })
    /\ current_step = NoneStep
    /\ step_data = EmptyMap
    /\ step_files = EmptyMap
    /\ extra_data = {}
    /\ init_args = NotCalled
    /\ initkwargs = NotCalled
    /\ pending = NoneStep
    /\ in_flight = << >>
    /\ done_calls = << >>
    /\ generation = 0

\* ------------------------------------------------------- request inputs
Callbacks == {"returns", "raises"}
\* The step a POST without goto is validated against: steps.current at line 223.
AddressedStep(st, marker) == steps_current_of(reconcile_step(st, marker))
\* The step whose fields a POST carries: the addressed step, or the displayed
\* step when the management form is missing.
SubmittedStep(st, marker) ==
    IF marker = NoMarker THEN steps_current_of(st.step) ELSE AddressedStep(st, marker)
ClassesOf(step) ==
    IF step \in Declared THEN { StructOf(step).items[i].cls : i \in DOMAIN StructOf(step).items }
    ELSE {}
\* request.POST, as the set of the addressed step's form classes it satisfies,
\* and request.FILES, as the set of their file fields it fills.
PostData(step) == SUBSET ClassesOf(step)
PostFiles(step) == SUBSET (UNION { FileFieldsOf(c) : c \in ClassesOf(step) })
Markers == {NoMarker, UnknownStep} \cup Declared
\* kwargs['step'] of a POST: none (base URLconf), a step's URL or the done URL.
PostUrlSteps == IF variant = "named" THEN {steps_first, DoneStepName} ELSE {NoneStep}
\* A wizard_goto_step that post() does not accept: none, or an inactive step.
RejectedGotos == {NoneStep} \cup (Declared \ Active)
\* kwargs['step'] and the behaviour of done() are read by render_done only,
\* which post() reaches from the last step.
FinalizeInputs(step) ==
    IF step = steps_last THEN PostUrlSteps \X Callbacks
    ELSE {<<NoneStep, "returns">>}

PostRequest(goto, marker, data, files, kw_step, callback) ==
    [goto |-> goto, marker |-> marker, data |-> data, files |-> files,
     kw_step |-> kw_step, callback |-> callback]
\* The POSTs with a wizard_goto_step that post() accepts.
GotoRequests(st) ==
    { PostRequest(goto, marker, {}, {}, NoneStep, "returns") :
        goto \in Active, marker \in {NoMarker, steps_current_of(st.step)} }
\* The POSTs without wizard_goto_step, or with one that post() does not accept.
SubmitRequests(st) ==
    UNION { { PostRequest(goto, marker, data, files, fin[1], fin[2]) :
                data \in PostData(SubmittedStep(st, marker)),
                files \in PostFiles(SubmittedStep(st, marker)),
                fin \in FinalizeInputs(SubmittedStep(st, marker)) } :
            goto \in RejectedGotos, marker \in Markers }
\* The GETs of the named-URL view.
GetRequest(step_url, has_reset, callback) ==
    [step_url |-> step_url, has_reset |-> has_reset, callback |-> callback]
NamedGetRequests ==
    { GetRequest(NoneStep, has_reset, "returns") : has_reset \in BOOLEAN }
    \cup { GetRequest(DoneStepName, FALSE, callback) : callback \in Callbacks }
    \cup { GetRequest(step_url, FALSE, "returns") : step_url \in Declared \cup {UnknownStep} }

\* The handlers on a request.
Post(st, r) == post(st, r.goto, r.marker, r.data, r.files, r.kw_step, r.callback)
NamedGetOf(st, r) == named_get(st, r.step_url, r.has_reset, r.callback)

\* --------------------------------------------------------------- actions
\* GET on MultipleFormWizardView.
Get ==
    /\ variant = "base"
    /\ Apply(base_get(Stored))

\* GET on NamedUrlWizardView.
NamedGet ==
    /\ variant = "named"
    /\ \E r \in NamedGetRequests : Apply(NamedGetOf(Stored, r))

\* POST with a wizard_goto_step that post() accepts.
PostGoto ==
    \E r \in GotoRequests(Stored) : Apply(Post(Stored, r))

\* POST without wizard_goto_step, or with one that post() does not accept.
PostSubmit ==
    \E r \in SubmitRequests(Stored) : Apply(Post(Stored, r))

\* The stored data of a step stops being valid between its submission and
\* finalize (the manipulation render_done re-validates against).
CorruptStepData ==
    /\ \E step \in DOMAIN step_data :
          /\ step_data[step] # {}
          /\ step_data' = [step_data EXCEPT ![step] = {}]
    /\ UNCHANGED <<config, client, current_step, step_files, extra_data>>

\* The application puts a value into storage.extra_data.
SetExtraData ==
    /\ extra_data = {}
    /\ extra_data' = {"k"}
    /\ UNCHANGED <<config, client, current_step, step_data, step_files>>

Next ==
    \/ Get
    \/ NamedGet
    \/ PostGoto
    \/ PostSubmit
    \/ CorruptStepData
    \/ SetExtraData

Spec == Init /\ [][Next]_vars

\* ================================================================ claims
\* Vocabulary of the claims, stated on the configuration and the storage
\* without the view's helpers.
ActivePositions == { i \in DOMAIN form_list : condition_dict[form_list[i].name] }
FirstActiveStep == form_list[Min(ActivePositions)].name
LastActiveStep == form_list[Max(ActivePositions)].name
PositionOf(step) == CHOOSE i \in DOMAIN form_list : form_list[i].name = step
\* Every form of the step validates on the data.
AllFormsValid(step, data) ==
    \A i \in DOMAIN StructOf(step).items : StructOf(step).items[i].cls \in data
StoredValid(data, step) == step \in DOMAIN data /\ AllFormsValid(step, data[step])
\* The active steps, by position, whose stored data does not validate.
InvalidActive(data) == { i \in ActivePositions : ~StoredValid(data, form_list[i].name) }
FirstInvalid(data) == form_list[Min(InvalidActive(data))].name
\* done() was called by the request.
DoneInvoked(o) == o.resp.kind = "done" \/ (o.resp.kind = "error" /\ o.resp.exc = "done")
PostRequests == GotoRequests(Stored) \cup SubmitRequests(Stored)
\* The step a POST is validated against, and the stored data once the POST has
\* stored its submission.
PostStep(r) == AddressedStep(Stored, r.marker)
WithSubmission(r) == MapSet(step_data, PostStep(r), r.data)
\* The POST is a submission: no accepted goto, a valid management form, a
\* declared step.
IsSubmission(r) ==
    /\ r.goto \in RejectedGotos
    /\ r.marker # NoMarker
    /\ PostStep(r) \in Declared
\* The requests that run a finalize pass: a valid submission of the last active
\* step (to the done URL in the named-URL view), and a GET of the done URL
\* whose last step is a plain form.
PostFinalizes(r) ==
    /\ IsSubmission(r)
    /\ AllFormsValid(PostStep(r), r.data)
    /\ PostStep(r) = LastActiveStep
    /\ variant = "named" => r.kw_step = DoneStepName
GetFinalizes(r) ==
    /\ r.step_url = DoneStepName
    /\ ~StructOf(LastActiveStep).is_mapping

\* C1: done() is called only by a request that runs a finalize pass in which
\* every form of every active step validates on the stored data; when some
\* active step's stored data does not validate, the pass ends at the first such
\* step in step order and done() is not called.
C1_DoneOnlyAfterRevalidation ==
    /\ variant = "base" => ~DoneInvoked(base_get(Stored))
    /\ \A r \in PostRequests :
          LET o == Post(Stored, r)
              data == WithSubmission(r)
          IN /\ DoneInvoked(o) => PostFinalizes(r) /\ InvalidActive(data) = {}
             /\ PostFinalizes(r) /\ InvalidActive(data) # {} =>
                    ~DoneInvoked(o) /\ o.st.step = FirstInvalid(data)
    /\ variant = "named" =>
          \A r \in NamedGetRequests :
              LET o == NamedGetOf(Stored, r)
              IN /\ DoneInvoked(o) => GetFinalizes(r) /\ InvalidActive(step_data) = {}
                 /\ GetFinalizes(r) /\ InvalidActive(step_data) # {} =>
                        ~DoneInvoked(o) /\ o.st.step = FirstInvalid(step_data)


\* C2 (as claimed): a POST without accepted goto, with a valid management form
\* and data on which all forms of the current step validate, the current step
\* not being the last active step, stores the data and files for that step,
\* sets the current step to the next active step after it and leaves the data
\* and files of every other step as they were.
NextActiveAfter(step) ==
    LET later == { i \in ActivePositions : i > PositionOf(step) }
    IN IF later = {} THEN NoneStep ELSE form_list[Min(later)].name
C2_ValidSubmitAdvances ==
    \A r \in SubmitRequests(Stored) :
        LET o == Post(Stored, r)
            cur == PostStep(r)
        IN IsSubmission(r) /\ AllFormsValid(cur, r.data) /\ cur # LastActiveStep =>
              /\ cur \in DOMAIN o.st.data /\ o.st.data[cur] = r.data
              /\ cur \in DOMAIN o.st.files /\ r.files \subseteq o.st.files[cur]
              /\ NextActiveAfter(cur) # NoneStep /\ o.st.step = NextActiveAfter(cur)
              /\ \A s \in Declared \ {cur} :
                    /\ get_step_data(o.st.data, s) = get_step_data(step_data, s)
                    /\ get_step_files(o.st.files, s) = get_step_files(step_files, s)

StoredDataOf(step) == IF step \in DOMAIN step_data THEN step_data[step] ELSE NoData
StoredFilesOf(step) ==
    IF step \in DOMAIN step_files /\ step_files[step] # {} THEN step_files[step] ELSE NoFiles
C4_GotoJumpsWithoutValidation ==
    \A r \in GotoRequests(Stored) :
        LET o == Post(Stored, r)
            items == StructOf(r.goto).items
        IN /\ o.st = St(r.goto, step_data, step_files, extra_data)
           /\ o.resp.kind # "error"
           /\ variant = "named" => o.resp = Redirect(r.goto)
           /\ variant = "base" =>
                 /\ o.resp.kind = "render"
                 /\ o.resp.step = r.goto
                 /\ DOMAIN o.resp.forms = DOMAIN items
                 /\ \A i \in DOMAIN items :
                       /\ o.resp.forms[i].cls = items[i].cls
                       /\ o.resp.forms[i].data = StoredDataOf(r.goto)
                       /\ o.resp.forms[i].files = StoredFilesOf(r.goto)


\* C5 (as claimed): a POST that is validated (no accepted goto, valid
\* management form) and on which some form of the validated step fails leaves
\* every step's stored data and files as they were, calls neither done() nor
\* moves to another step than the validated one, and renders the validated
\* step.
C5_InvalidSubmitRerenders ==
    \A r \in SubmitRequests(Stored) :
        LET o == Post(Stored, r)
        IN IsSubmission(r) /\ ~AllFormsValid(PostStep(r), r.data) =>
              /\ o.st.data = step_data
              /\ o.st.files = step_files
              /\ ~DoneInvoked(o)
              /\ o.st.step \in {current_step, PostStep(r)}
              /\ o.resp.kind = "render"
              /\ o.resp.step = PostStep(r)

\* C6: a POST without accepted goto whose management form is missing or not
\* valid raises ValidationError and leaves the current step, every step's data
\* and files and the extra data as they were.
C6_BadMarkerRejected ==
    \A r \in SubmitRequests(Stored) :
        r.marker = NoMarker =>
            /\ Post(Stored, r).resp = Raised("ValidationError")
            /\ Post(Stored, r).st = St(current_step, step_data, step_files, extra_data)

\* C6 witness: such a POST with a goto to an inactive step and data that is
\* valid for the displayed step, on a storage that holds data and extra data.
C6_Witness ==
    \E r \in SubmitRequests(Stored) :
        /\ r.marker = NoMarker
        /\ r.goto \in Declared \ Active
        /\ current_step \in Active
        /\ AllFormsValid(current_step, r.data)
        /\ step_data # EmptyMap /\ extra_data # {}
        /\ Post(Stored, r).resp.exc = "ValidationError"

\* The outcomes of the requests that can reach done(): the submissions and, in
\* the named-URL view, the GETs.
FinalizeOutcomes ==
    { Post(Stored, r) : r \in SubmitRequests(Stored) }
    \cup (IF variant = "named" THEN { NamedGetOf(Stored, r) : r \in NamedGetRequests }
          ELSE {})
\* The names of the active steps, in the order of their positions.
ActiveInOrder ==
    SelectSeq([i \in DOMAIN form_list |-> form_list[i].name], LAMBDA n : condition_dict[n])

\* C7 (as claimed): when done() returns, its form_list argument holds, at the
\* position of each active step in step order, the result that its form_dict
\* argument holds under that step's name.
C7_ResultListInStepOrder ==
    \A o \in FinalizeOutcomes :
        o.resp.kind = "done" =>
            /\ DOMAIN o.resp.form_dict = Range(ActiveInOrder)
            /\ Len(o.resp.form_list) = Len(ActiveInOrder)
            /\ \A i \in DOMAIN ActiveInOrder :
                  o.resp.form_list[i] = o.resp.form_dict[ActiveInOrder[i]]

\* C8 (as claimed): when done() returns, the result of a step declared as a
\* single form is that form, the result of a step declared as a mapping is a
\* mapping from each of its tags to the form of that tag's class, no form
\* among the results has the _tag attribute, and the list holds the same
\* results as the name-keyed mapping.
TagsOf(step) == { StructOf(step).items[i].tag : i \in DOMAIN StructOf(step).items }
ClassOfTag(step, t) ==
    (CHOOSE it \in Range(StructOf(step).items) : it.tag = t).cls
IsUntaggedFormOf(v, cls) ==
    /\ DOMAIN v = {"cls", "prefix", "data", "files", "tag"}
    /\ v.cls = cls
    /\ v.tag = NoTag
C8_ResultShapes ==
    \A o \in FinalizeOutcomes :
        o.resp.kind = "done" =>
            /\ Range(o.resp.form_list) = Range(o.resp.form_dict)
            /\ \A step \in DOMAIN o.resp.form_dict :
                  LET v == o.resp.form_dict[step]
                  IN IF StructOf(step).is_mapping
                     THEN /\ DOMAIN v = TagsOf(step)
                          /\ \A t \in TagsOf(step) :
                                IsUntaggedFormOf(v[t], ClassOfTag(step, t))
                     ELSE IsUntaggedFormOf(v, StructOf(step).items[1].cls)

\* C9: a request in which done() returns leaves the storage in the reset
\* state (no current step, no step data, no files, no extra data); and on a
\* storage without step data done() is called only by a request that itself
\* submits valid data for a step.
ResetState == St(NoneStep, EmptyMap, EmptyMap, {})
C9_ResetAfterDone ==
    /\ \A o \in FinalizeOutcomes : o.resp.kind = "done" => o.st = ResetState
    /\ step_data = EmptyMap =>
          /\ variant = "named" =>
                \A r \in NamedGetRequests : ~DoneInvoked(NamedGetOf(Stored, r))
          /\ \A r \in PostRequests :
                DoneInvoked(Post(Stored, r)) =>
                    IsSubmission(r) /\ AllFormsValid(PostStep(r), r.data)


\* C10: a finalize pass that meets a step whose stored data does not validate
\* does not call done() and leaves every step's data and files and the extra
\* data as the pass found them; the stored current step becomes the first such
\* step in step order, which the base view renders and the named-URL view
\* redirects to.
RoutedToFirstInvalid(o, data) ==
    /\ ~DoneInvoked(o)
    /\ o.st.step = FirstInvalid(data)
    /\ o.st.data = data
    /\ o.st.extra = extra_data
    /\ variant = "base" => o.resp.kind = "render" /\ o.resp.step = FirstInvalid(data)
    /\ variant = "named" => o.resp = Redirect(FirstInvalid(data))
C10_FailedFinalizeKeepsState ==
    /\ \A r \in SubmitRequests(Stored) :
          PostFinalizes(r) /\ InvalidActive(WithSubmission(r)) # {} =>
              /\ RoutedToFirstInvalid(Post(Stored, r), WithSubmission(r))
              /\ Post(Stored, r).st.files = set_step_files(step_files, PostStep(r), r.files)
    /\ variant = "named" =>
          \A r \in NamedGetRequests :
              GetFinalizes(r) /\ InvalidActive(step_data) # {} =>
                  /\ RoutedToFirstInvalid(NamedGetOf(Stored, r), step_data)
                  /\ NamedGetOf(Stored, r).st.files = step_files


\* ========================================================= configuration
\* get_initkwargs as a function of its arguments.
\*
\* The classes a form list can hold.
FormSetForm(cls) == "FB"
DeclaredClasses == {"FA", "FB", "MF", "FSB"}
DeclaredMappings ==
    { FormMapping(<<[tag |-> "x", cls |-> "FA"], [tag |-> "y", cls |-> "FB"]>>),
      FormMapping(<<[tag |-> "x", cls |-> "FA"]>>) }
\* A declared step name: a str or an int.
StrName(s) == [type |-> "str", value |-> s]
IntName(n) == [type |-> "int", value |-> n]
DeclaredNames == {StrName(Na), StrName(DoneStepName), IntName(0)}
\* An element of form_list: a bare class, or a (step_name, form) tuple whose
\* form is a class or a mapping.
BareElement(cls) == [is_tuple |-> FALSE, step_name |-> StrName(NoneStep), form |-> SingleForm(cls)]
TupleElement(name, form) == [is_tuple |-> TRUE, step_name |-> name, form |-> form]
ElementPool ==
    { BareElement(cls) : cls \in DeclaredClasses }
    \cup { TupleElement(name, SingleForm(cls)) : name \in DeclaredNames, cls \in DeclaredClasses }
    \cup { TupleElement(name, m) : name \in DeclaredNames, m \in DeclaredMappings }

\* six.text_type of an int and of a step name.
RECURSIVE IntToStr(_)
IntToStr(n) ==
    IF n < 10 THEN <<48 + n>> ELSE IntToStr(n \div 10) \o <<48 + (n % 10)>>
text_type(name) == IF name.type = "int" THEN IntToStr(name.value) ELSE name.value

\* computed_form_list[key] = value on the OrderedDict kept as a sequence: a
\* new key goes to the end, a key that is present keeps its place.
OrderedDictSet(od, key, value) ==
    IF \E i \in DOMAIN od : od[i].name = key
    THEN [i \in DOMAIN od |->
            IF od[i].name = key THEN [name |-> key, struct |-> value] ELSE od[i]]
    ELSE Append(od, [name |-> key, struct |-> value])

\* Lines 60-74: the walk through the passed form list, from its k-th element.
RECURSIVE computed_form_list(_, _, _)
computed_form_list(declared, k, computed) ==
    IF k > Len(declared) THEN computed
    ELSE
        LET e == declared[k]
            form == e.form
            next ==
                IF e.is_tuple THEN
                    IF form.is_mapping THEN
                        OrderedDictSet(computed, text_type(e.step_name), form)
                    ELSE IF IsFormSubclass(form.items[1].cls) THEN
                        OrderedDictSet(computed, text_type(e.step_name), form)
                    ELSE computed
                ELSE OrderedDictSet(computed, IntToStr(k - 1), form)
        IN computed_form_list(declared, k + 1, next)

\* Lines 78-85: the forms of a computed step whose fields are looked at.
form_collection(struct) ==
    IF struct.is_mapping THEN { struct.items[i].cls : i \in DOMAIN struct.items }
    ELSE IF IsFormSetSubclass(struct.items[1].cls) THEN {FormSetForm(struct.items[1].cls)}
    ELSE {}
\* Lines 87-95: some looked-at form has a FileField.
file_field_found(computed) ==
    \E i \in DOMAIN computed :
        \E cls \in form_collection(computed[i].struct) : FileFieldsOf(cls) # {}

\* The outcome of a get_initkwargs call.
NoUrlName == "<absent>"
InitResult(status, computed, url_name, done_step_name) ==
    [status |-> status, form_list |-> computed,
     url_name |-> url_name, done_step_name |-> done_step_name]
InitRaised(exc) == InitResult(exc, << >>, NoUrlName, NoneStep)

\* MultipleFormWizardView.get_initkwargs, lines 17-99.
get_initkwargs(args) ==
    IF Len(args.form_list) = 0 THEN InitRaised("AssertionError")
    ELSE
        LET computed == computed_form_list(args.form_list, 1, << >>)
        IN IF file_field_found(computed) /\ ~args.file_storage
           THEN InitRaised("NoFileStorageConfigured")
           ELSE InitResult("ok", computed, NoUrlName, NoneStep)

\* NamedUrlWizardView.get_initkwargs, lines 373-389.  url_name is
\* kwargs['url_name'] or NoUrlName when the key is absent; done_step_name is
\* kwargs['done_step_name'] or NoneStep when the key is absent.
named_get_initkwargs(args) ==
    IF args.url_name = NoUrlName THEN InitRaised("AssertionError")
    ELSE
        LET done == IF args.done_step_name = NoneStep THEN DoneStepName
                    ELSE args.done_step_name
            super == get_initkwargs(args)
        IN IF super.status # "ok" THEN super
           ELSE IF \E i \in DOMAIN super.form_list : super.form_list[i].name = done
                THEN InitRaised("AssertionError")
           ELSE InitResult("ok", super.form_list, args.url_name, done)

\* The arguments of a call: the form list, whether the view class has a
\* file_storage attribute, and the named-URL view's keyword arguments.
InitArgs(declared, file_storage, url_name, done_step_name) ==
    [form_list |-> declared, file_storage |-> file_storage,
     url_name |-> url_name, done_step_name |-> done_step_name]
UrlNames == {NoUrlName, "", "wizard"}
DoneStepNames == {NoneStep, Na, <<48>>}

ConfigInit ==
    /\ variant \in {"base", "named"}
    /\ form_list = << >>
    /\ condition_dict = EmptyMap
    /\ current_step = NoneStep
    /\ step_data = EmptyMap
    /\ step_files = EmptyMap
    /\ extra_data = {}
    /\ \E fs \in BOOLEAN : init_args = InitArgs(<< >>, fs, NoUrlName, NoneStep)
    /\ initkwargs = NotCalled
    /\ pending = NoneStep
    /\ in_flight = << >>
    /\ done_calls = << >>
    /\ generation = 0

\* The application writes one more element of its form list.
DeclareElement ==
    /\ initkwargs = NotCalled
    /\ Len(init_args.form_list) < MaxDeclared
    /\ \E e \in ElementPool :
          init_args' = [init_args EXCEPT !.form_list = Append(@, e)]
    /\ UNCHANGED <<variant, form_list, condition_dict, storage, initkwargs, client>>

\* A call's outcome: the view's form_list is the computed one when the call
\* returns.
Configured(result) ==
    /\ initkwargs' = result
    /\ form_list' = IF result.status = "ok" THEN result.form_list ELSE form_list
    /\ UNCHANGED <<variant, condition_dict, storage, client>>

\* MultipleFormWizardView.as_view(form_list).
Configure ==
    /\ variant = "base"
    /\ initkwargs = NotCalled
    /\ UNCHANGED init_args
    /\ Configured(get_initkwargs(init_args))

\* NamedUrlWizardView.as_view(form_list, url_name=..., done_step_name=...).
ConfigureNamed ==
    /\ variant = "named"
    /\ initkwargs = NotCalled
    /\ \E u \in UrlNames, d \in DoneStepNames :
          /\ init_args' = [init_args EXCEPT !.url_name = u, !.done_step_name = d]
          /\ Configured(named_get_initkwargs(init_args'))

ConfigNext ==
    \/ DeclareElement
    \/ Configure
    \/ ConfigureNamed

ConfigSpec == ConfigInit /\ [][ConfigNext]_vars

\* Vocabulary of the configuration claims.
Called == initkwargs # NotCalled
DeclaredForms(e) == { e.form.items[i].cls : i \in DOMAIN e.form.items }
\* The forms whose fields a step has: those of a mapping, the class of a
\* single-form step, the item form of a formset step.
FieldFormsOf(e) ==
    { IF IsFormSetSubclass(cls) THEN FormSetForm(cls) ELSE cls : cls \in DeclaredForms(e) }
HasFileField(e) == \E cls \in FieldFormsOf(e) : FileFieldsOf(cls) # {}

\* C11 (as claimed): a get_initkwargs call on a form list in which some form
\* of some step has a FileField, by a view class without file_storage, raises
\* (NoFileStorageConfigured, or the error of an earlier check) and never
\* returns.
C11_FileFieldNeedsStorage ==
    Called /\ ~init_args.file_storage
           /\ (\E i \in DOMAIN init_args.form_list : HasFileField(init_args.form_list[i]))
        => initkwargs.status # "ok"

\* The name the k-th declared element is to get: the string of its step_name,
\* or of its zero-based index.
ExpectedName(declared, k) ==
    IF declared[k].is_tuple THEN text_type(declared[k].step_name) ELSE IntToStr(k - 1)
DistinctNames(declared) ==
    \A i, j \in DOMAIN declared :
        i # j => ExpectedName(declared, i) # ExpectedName(declared, j)

\* C12 (as claimed): a get_initkwargs call that returns, on a form list whose
\* step names are pairwise distinct, yields a form_list with one step per
\* declared element, in declared order, each under the string of its name (or
\* of its index) and holding the declared form class or mapping.
C12_OneStepPerElement ==
    Called /\ initkwargs.status = "ok" /\ DistinctNames(init_args.form_list) =>
        /\ Len(initkwargs.form_list) = Len(init_args.form_list)
        /\ \A k \in DOMAIN init_args.form_list :
              /\ k \in DOMAIN initkwargs.form_list
              /\ initkwargs.form_list[k].name = ExpectedName(init_args.form_list, k)
              /\ initkwargs.form_list[k].struct = init_args.form_list[k].form

\* The done step name of a call (the default when none is supplied), and
\* whether it is the name of a declared step.
DoneNameOf(args) ==
    IF args.done_step_name = NoneStep THEN DoneStepName ELSE args.done_step_name
DoneNameCollides(args) ==
    \E k \in DOMAIN args.form_list : ExpectedName(args.form_list, k) = DoneNameOf(args)

\* C14 (as claimed): a NamedUrlWizardView.get_initkwargs call fails when the
\* url_name is absent or empty, fails when the done step name is the string
\* of a declared step's name, and otherwise (the base configuration
\* succeeding) returns with url_name and done_step_name recorded.
C14_NamedConfiguration ==
    Called /\ variant = "named" =>
        /\ init_args.url_name \in {NoUrlName, ""} => initkwargs.status # "ok"
        /\ DoneNameCollides(init_args) => initkwargs.status # "ok"
        /\ /\ init_args.url_name \notin {NoUrlName, ""}
           /\ ~DoneNameCollides(init_args)
           /\ get_initkwargs(init_args).status = "ok"
           => /\ initkwargs.status = "ok"
              /\ initkwargs.url_name = init_args.url_name
              /\ initkwargs.done_step_name = DoneNameOf(init_args)

\* ================================================= claims on the requests
\* The wizard has two active steps, the first has been submitted validly and
\* is the only step with stored data.
OnlyFirstOfTwoSubmitted ==
    /\ Len(ActiveInOrder) = 2
    /\ DOMAIN step_data = {ActiveInOrder[1]}
    /\ StoredValid(step_data, ActiveInOrder[1])

\* C13 (as claimed): in the named-URL view with two active steps of which only
\* the first has been submitted validly, a GET of the done URL does not call
\* done(), makes the second step the stored current step, leaves the stored
\* data as it is and redirects to the second step's URL.
C13_DoneUrlBeforeLastStep ==
    variant = "named" /\ OnlyFirstOfTwoSubmitted =>
        \A callback \in Callbacks :
            LET o == named_get(Stored, DoneStepName, FALSE, callback)
            IN /\ ~DoneInvoked(o)
               /\ o.st = St(ActiveInOrder[2], step_data, step_files, extra_data)
               /\ o.resp = Redirect(ActiveInOrder[2])

\* The stored data a finalize pass works on, per request that runs one.
AllDeclaredValid(data) == \A step \in Declared : StoredValid(data, step)

\* C15 (as claimed): done() is called only when every step of the declared
\* form list, the steps whose condition is false included, validates on the
\* stored data.
C15_EveryDeclaredStepRevalidated ==
    /\ \A r \in SubmitRequests(Stored) :
          DoneInvoked(Post(Stored, r)) => AllDeclaredValid(WithSubmission(r))
    /\ variant = "named" =>
          \A r \in NamedGetRequests :
              DoneInvoked(NamedGetOf(Stored, r)) => AllDeclaredValid(step_data)

\* The same request with a done() that returns.
Returning(r) == [r EXCEPT !.callback = "returns"]
\* The stored current step at the time post() calls render_done.
StepAtFinalize(r) == IF current_step = NoneStep THEN NoneStep ELSE PostStep(r)

\* C16: when done() raises, the request leaves the storage as it was when
\* done() was called (current step, every step's data and files, extra data),
\* and the same request on that storage reaches done() again: it raises again,
\* and finalizes if done() returns.
C16_NoResetWhenDoneRaises ==
    /\ \A r \in SubmitRequests(Stored) :
          LET o == Post(Stored, r)
          IN r.callback = "raises" /\ o.resp = Raised("done") =>
                /\ o.st = St(StepAtFinalize(r), WithSubmission(r),
                             set_step_files(step_files, PostStep(r), r.files), extra_data)
                /\ Post(o.st, r).resp = Raised("done")
                /\ Post(o.st, Returning(r)).resp.kind = "done"
    /\ variant = "named" =>
          \A r \in NamedGetRequests :
              LET o == NamedGetOf(Stored, r)
              IN o.resp = Raised("done") =>
                    /\ o.st = Stored
                    /\ NamedGetOf(o.st, Returning(r)).resp.kind = "done"

\* C16 witness: done() raises in a finalize on a storage with a current step,
\* the data of two steps and extra data.
C16_Witness ==
    \E r \in SubmitRequests(Stored) :
        /\ r.callback = "raises"
        /\ Post(Stored, r).resp = Raised("done")
        /\ current_step # NoneStep
        /\ Cardinality(DOMAIN step_data) >= 2
        /\ extra_data # {}
        /\ Post(Stored, r).st.data = WithSubmission(r)

\* The request's outcome shows that its data was validated against the step:
\* valid data is stored under it (or, the storage being reset after done(),
\* done() has received the step's result); with data that fails, the base view
\* renders the step's forms bound to the data.
ValidatedAgainst(o, r, step) ==
    IF AllFormsValid(step, r.data)
    THEN \/ step \in DOMAIN o.st.data /\ o.st.data[step] = r.data
         \/ o.resp.kind = "done" /\ step \in DOMAIN o.resp.form_dict
    ELSE /\ o.st.data = step_data
         /\ variant = "base" =>
               /\ o.resp.kind = "render"
               /\ o.resp.step = step
               /\ Len(o.resp.forms) = Len(StructOf(step).items)
               /\ \A i \in DOMAIN o.resp.forms :
                     /\ o.resp.forms[i].cls = StructOf(step).items[i].cls
                     /\ o.resp.forms[i].data = r.data

\* C17: on a POST without accepted goto and with a valid management form: if
\* the storage holds a current step and the management form's current_step
\* differs from it, that value is stored as current step before the forms are
\* built (a value that names no step makes the form building fail, with the
\* value stored) and the data is validated against that step; if the storage
\* holds no current step, the POST is validated against the first active step
\* and the management form's value is not stored.
C17_MarkerReconciliation ==
    \A r \in SubmitRequests(Stored) :
        LET o == Post(Stored, r)
        IN r.marker # NoMarker =>
            /\ current_step # NoneStep /\ r.marker # current_step =>
                  /\ r.marker \notin Declared =>
                        o = Out(St(r.marker, step_data, step_files, extra_data),
                                Raised("KeyError"))
                  /\ r.marker \in Declared =>
                        /\ ValidatedAgainst(o, r, r.marker)
                        /\ ~AllFormsValid(r.marker, r.data) => o.st.step = r.marker
            /\ current_step = NoneStep =>
                  /\ ValidatedAgainst(o, r, FirstActiveStep)
                  /\ ~AllFormsValid(FirstActiveStep, r.data) => o.st.step = NoneStep


\* The data get_forms is called with for a step: none, the stored data, or
\* a submission.
BuildData(step) == {NoData, StoredDataOf(step)} \cup PostData(step)

\* C18 (as claimed): the forms get_forms builds for a step declared as a
\* mapping have pairwise distinct prefixes.
C18_DistinctPrefixes ==
    \A step \in Declared :
        StructOf(step).is_mapping =>
            \A data \in BuildData(step) :
                LET forms == get_forms(step, data, NoFiles).forms
                IN \A i, j \in DOMAIN forms :
                      i # j => forms[i].prefix # forms[j].prefix

\* C19 (as claimed): in the named-URL view a POST that is validated against
\* the last active step with valid data stores the data, does not call done(),
\* leaves the extra data and the other steps' data as they are and redirects
\* to the done URL; no POST calls done().
C19_NamedPostRedirectsToDone ==
    variant = "named" =>
        \A r \in SubmitRequests(Stored) :
            LET o == Post(Stored, r)
            IN /\ ~DoneInvoked(o)
               /\ /\ IsSubmission(r)
                  /\ PostStep(r) = LastActiveStep
                  /\ AllFormsValid(PostStep(r), r.data)
                  => /\ o.resp = Redirect(DoneStepName)
                     /\ o.st.data = WithSubmission(r)
                     /\ o.st.extra = extra_data

\* C20: in the named-URL view a GET whose step is neither the done name nor
\* the name of a declared step makes the first active step the stored current
\* step, leaves data, files and extra data as they are and redirects to the
\* first active step; a GET without step and without reset leaves the storage
\* as it is and redirects to the current step (the first active step when
\* none is stored).
C20_NamedGetSelfHeals ==
    variant = "named" =>
        /\ \A step_url \in {UnknownStep} \ (Declared \cup {DoneStepName}) :
              named_get(Stored, step_url, FALSE, "returns")
                  = Out(St(FirstActiveStep, step_data, step_files, extra_data),
                        Redirect(FirstActiveStep))
        /\ named_get(Stored, NoneStep, FALSE, "returns")
              = Out(Stored, Redirect(IF current_step = NoneStep THEN FirstActiveStep
                                     ELSE current_step))


\* C20 witness: a GET of an unknown step address on a storage that holds
\* data and extra data and whose current step is not the first active step.
C20_Witness ==
    /\ variant = "named"
    /\ step_data # EmptyMap
    /\ extra_data # {}
    /\ current_step \notin {NoneStep, FirstActiveStep}
    /\ dispatch(Stored, named_get(Stored, UnknownStep, FALSE, "returns"))
           = St(FirstActiveStep, step_data, step_files, extra_data)

\* ------------------------------------------------------------------- C22
\* C22: in every reachable state of the storage, after any sequence of GET,
\* POST and named-URL GET requests with any management marker and any step
\* address, the stored current step is absent or names a declared step.
C22_CurrentStepDeclared ==
    current_step = NoneStep \/ current_step \in Declared
\* C22 witness: the storage holds a current step and a POST carries a
\* management form whose current_step names no declared step: post() writes
\* it on the request's storage (line 220), get_forms raises KeyError (line
\* 257) and the stored state stays as it was.
C22_Witness ==
    /\ current_step \in Declared
    /\ \E r \in SubmitRequests(Stored) :
          /\ r.marker = UnknownStep
          /\ Post(Stored, r) = Out(St(UnknownStep, step_data, step_files, extra_data),
                                   Raised("KeyError"))
          /\ dispatch(Stored, Post(Stored, r)) = Stored


\* ------------------------------------------------------------------- C23
\* The client of the named-URL view: it GETs the target of every redirect
\* (get_step_url(step), line 391-392: the URL whose step kwarg is `step`).
RedirectTarget(resp) == IF resp.kind = "redirect" THEN resp.step ELSE NoneStep
\* The request's storage is saved and the client receives the response.
Respond(out) ==
    \E saved \in {dispatch(Stored, out)} :
        /\ current_step' = saved.step
        /\ step_data' = saved.data
        /\ step_files' = saved.files
        /\ extra_data' = saved.extra
        /\ pending' = RedirectTarget(out.resp)
        /\ UNCHANGED <<config, race>>

FollowInit == Init /\ variant = "named"

\* A GET the client makes of its own accord.
ClientGet ==
    /\ pending = NoneStep
    /\ \E r \in NamedGetRequests : Respond(NamedGetOf(Stored, r))

\* A POST the client makes of its own accord.
ClientPost ==
    /\ pending = NoneStep
    /\ \E r \in PostRequests : Respond(Post(Stored, r))

\* The client follows a redirect: GET of its target.
FollowRedirect ==
    /\ pending # NoneStep
    /\ \E callback \in Callbacks :
          Respond(named_get(Stored, pending, FALSE, callback))

\* Stored data stops being valid while the client is not following a redirect.
Manipulate ==
    /\ pending = NoneStep
    /\ CorruptStepData

FollowNext ==
    \/ ClientGet
    \/ ClientPost
    \/ FollowRedirect
    \/ Manipulate

\* The client does follow a redirect it received.
FollowSpec == FollowInit /\ [][FollowNext]_vars /\ WF_vars(FollowRedirect)

\* C23: in the named-URL variant, from any reachable state and any GET or
\* POST, a client that follows every redirect with a GET of its target reaches
\* a response that is not a redirect after finitely many redirects.
C23_RedirectsEnd == (pending # NoneStep) ~> (pending = NoneStep)
\* The client is sent to the done URL while a stored active step is invalid:
\* the GET of the done URL will redirect again, to that step.
C23_Witness ==
    /\ pending = DoneStepName
    /\ InvalidActive(step_data) # {}
    /\ named_get(Stored, pending, FALSE, "returns").resp
           = Redirect(FirstInvalid(step_data))


\* ------------------------------------------------------------------- C21
\* Requests of one client that overlap.  The storage backend gives a request
\* the stored data when the request starts (get_storage in dispatch) and
\* writes the request's copy back when the response is ready; nothing locks
\* the stored data in between, the last write wins.
\* done() returns in these requests: the case in which the reset of line 175
\* follows the callback.
ReturningRequests(requests) == { r \in requests : r.callback = "returns" }
\* The POSTs of the page the client was served: its management form names the
\* displayed step.
PagePosts(st) ==
    { r \in GotoRequests(st) \cup SubmitRequests(st) :
        r.marker = steps_current_of(st.step) /\ r.goto \in {NoneStep} \cup Active }
RaceRequests(st) ==
    { [method |-> "POST", r |-> r] : r \in ReturningRequests(PagePosts(st)) }
    \cup { [method |-> "GET", r |-> r] :
             r \in IF variant = "named" THEN ReturningRequests(NamedGetRequests)
                   ELSE {GetRequest(NoneStep, FALSE, "returns")} }
\* dispatch: the handler of the request's method.
Handle(st, q) ==
    IF q.method = "POST" THEN Post(st, q.r)
    ELSE IF variant = "named" THEN NamedGetOf(st, q.r)
    ELSE base_get(st)
\* The stored data the handler hands to done(): what it loaded, and what
\* post() stored at lines 233-234 before render_done.
DataAtDone(loaded, q) ==
    IF q.method = "POST"
    THEN [data |-> MapSet(loaded.st.data, AddressedStep(loaded.st, q.r.marker), q.r.data),
          files |-> set_step_files(loaded.st.files,
                                   AddressedStep(loaded.st, q.r.marker), q.r.files),
          generation |-> loaded.generation]
    ELSE [data |-> loaded.st.data, files |-> loaded.st.files,
          generation |-> loaded.generation]
Remove(seq, i) == [k \in 1..(Len(seq) - 1) |-> IF k < i THEN seq[k] ELSE seq[k + 1]]

RaceInit == Init

\* A request arrives and loads the stored data.  Two requests overlap: the
\* second arrives before the first has saved.
BeginRequest ==
    /\ \/ in_flight = << >>
       \/ /\ Len(in_flight) = 1
          /\ in_flight[1].st = Stored
          /\ in_flight[1].generation = generation
    /\ Len(done_calls) < MaxDoneCalls
    /\ \E q \in RaceRequests(Stored) :
          in_flight' = Append(in_flight,
                              [st |-> Stored, generation |-> generation, q |-> q])
    /\ UNCHANGED <<config, storage, pending, done_calls, generation>>

\* A request's handler runs on what it loaded, the response is ready and the
\* request's copy of the data is saved (nothing is saved when the handler
\* raised).
FinishRequest ==
    \E i \in DOMAIN in_flight :
        \E o \in {Handle(in_flight[i].st, in_flight[i].q)} :
            /\ current_step' = dispatch(Stored, o).step
            /\ step_data' = dispatch(Stored, o).data
            /\ step_files' = dispatch(Stored, o).files
            /\ extra_data' = dispatch(Stored, o).extra
            /\ generation' = IF o.resp.kind = "error" THEN generation
                             ELSE IF o.resp.kind = "done"
                                  THEN in_flight[i].generation + 1
                                  ELSE in_flight[i].generation
            /\ done_calls' = IF DoneInvoked(o)
                             THEN Append(done_calls, DataAtDone(in_flight[i], in_flight[i].q))
                             ELSE done_calls
            /\ in_flight' = Remove(in_flight, i)
            /\ UNCHANGED <<config, pending>>

RaceNext ==
    \/ BeginRequest
    \/ FinishRequest

RaceSpec == RaceInit /\ [][RaceNext]_vars

\* C21: for any interleaving of two requests of one client that share the
\* stored data without locking, done() is called at most once for one set of
\* stored step data.
C21_DoneOncePerStoredData ==
    \A i, j \in DOMAIN done_calls : done_calls[i] = done_calls[j] => i = j

=============================================================================
